---- MODULE Spec2Model ----
(***************************************************************************)
(* A model of src/inmet_scraper.py: the INMETScraper class that downloads  *)
(* the yearly INMET archive, extracts the member of station A652 and       *)
(* writes it as a parquet file, one file per year.                         *)
(*                                                                         *)
(* Strings are sequences of chunks (each chunk a TLA+ string), so that     *)
(* concatenation, emptiness and substring tests are computed, not assumed. *)
(* The network, the archive content and the faults of the libraries are    *)
(* the environment: every call of process_year draws them from Envs.       *)
(***************************************************************************)
EXTENDS Integers, Sequences, FiniteSets, TLC

VARIABLES output_dir, start_year, current_year, files, pc, idx, results,
          last, calls

vars == <<output_dir, start_year, current_year, files, pc, idx, results,
          last, calls>>

(* ------------------------------ bounds -------------------------------- *)

\* start_year ranges over ThisYear - MaxSpan .. ThisYear + 2
MaxSpan == 1
\* a station member has at most MaxLines lines
MaxLines == 10
\* an archive has at most MaxMembers members
MaxMembers == 2
\* at most MaxCalls calls of process_year in one behaviour
MaxCalls == 4

(* --------------------------- program constants ------------------------ *)

\* datetime.now().year, read once by __init__
ThisYear == 2021

\* a variant of SkipRows: ten lines skipped
SkipRowsTen == 8 + 2

\* skip_rows of pl.read_csv
SkipRows == 8

\* self.station_identifier
StationIdentifier == <<"INMET_SE_RJ_A652_RIO DE JANEIRO">>

\* self.base_url
BaseUrl == <<"https://portal.inmet.gov.br/uploads/dadoshistoricos">>

(* ------------------------------ strings ------------------------------- *)

DigitChar == <<"0", "1", "2", "3", "4", "5", "6", "7", "8", "9">>

RECURSIVE NatStr(_)
NatStr(n) == IF n < 10 THEN <<DigitChar[n + 1]>>
             ELSE NatStr(n \div 10) \o <<DigitChar[(n % 10) + 1]>>

\* str(year) as the f-strings format it
Str(n) == IF n < 0 THEN <<"-">> \o NatStr(-n) ELSE NatStr(n)

\* "needle in hay" of Python
Contains(needle, hay) ==
  \E i \in 1..(Len(hay) - Len(needle) + 1) :
     SubSeq(hay, i, i + Len(needle) - 1) = needle

\* os.path.join(a, b) for a relative b
PathJoin(a, b) ==
  IF Len(a) = 0 THEN b
  ELSE IF a[Len(a)] = "/" THEN a \o b
  ELSE a \o <<"/">> \o b

(* ---------------------------- DownloadResult -------------------------- *)

\* Optional[str]
None == [is_none |-> TRUE, str |-> <<>>]
Some(s) == [is_none |-> FALSE, str |-> s]

\* truthiness of an Optional[str]: neither None nor ""
Truthy(o) == ~o.is_none /\ Len(o.str) > 0

DownloadResult(y, ok, path, msg) ==
  [year |-> y, success |-> ok, file_path |-> path, error_message |-> msg]

(* ----------------------------- environment ---------------------------- *)

\* member names of an archive; the first two contain the station identifier
NameStationDir == <<"2020/">> \o StationIdentifier \o <<"_01-01_A_31-12.CSV">>
NameStationTop == StationIdentifier \o <<".CSV">>
NameOther == <<"INMET_SE_SP_A701_SAO PAULO", ".CSV">>

\* the numbers of lines a station member may have: the skipped lines alone,
\* a header line after them, and rows after the header
LineCounts == SkipRows..MaxLines

\* a member of an archive: its name and the number of its text lines; line
\* i of a member is identified by its number i
Members ==
  [name : {NameStationDir}, lines : LineCounts]
    \cup [name : {NameStationTop, NameOther}, lines : {MaxLines}]

DistinctNames(ms) ==
  \A i, j \in 1..Len(ms) : i # j => ms[i].name # ms[j].name

RECURSIVE SeqsUpTo(_, _)
SeqsUpTo(S, n) ==
  IF n = 0 THEN {<<>>}
  ELSE LET shorter == SeqsUpTo(S, n - 1)
       IN shorter \cup {Append(q, x) : q \in {r \in shorter : Len(r) = n - 1}, x \in S}

\* the member lists of a ZIP archive, in namelist() order
Archives == {ms \in SeqsUpTo(Members, MaxMembers) : DistinctNames(ms)}

\* a response body: the bytes are a ZIP archive or they are not
NotZip == [is_zip |-> FALSE, members |-> <<>>]
Bodies == {NotZip} \cup [is_zip : {TRUE}, members : Archives]

\* the status codes requests.get can return after following redirects
StatusCodes == {200, 304, 404}

\* what one call of process_year meets: the fault of requests.get, the
\* response, the fault of pl.read_csv and the fault of write_parquet
QuietEnv(s, b) ==
  [net_fault |-> "none", status |-> s, body |-> b, read_fault |-> "none",
   write_fault |-> "none"]

\* the archives the library faults are drawn with: one station member
FaultBodies ==
  {[is_zip |-> TRUE, members |-> <<m>>] : m \in [name : {NameStationDir}, lines : LineCounts]}

\* the environments of a call: a transport fault; a status 200 with every
\* body; the other statuses with the bodies of at most one member; and a
\* parse or write fault with the bodies of one station member
Envs ==
  {[QuietEnv(200, NotZip) EXCEPT !.net_fault = "ConnectionError"]}
    \cup {QuietEnv(200, b) : b \in Bodies}
    \cup {QuietEnv(s, b) : s \in StatusCodes, b \in {NotZip} \cup FaultBodies}
    \cup {[QuietEnv(200, b) EXCEPT !.read_fault = "ComputeError"] : b \in FaultBodies}
    \cup {[QuietEnv(200, b) EXCEPT !.write_fault = w] :
            b \in FaultBodies, w \in {"before_create", "after_create"}}

(* ------------------------------ exceptions ---------------------------- *)

\* requests.exceptions.RequestException and its subclasses
RequestExceptions == {"ConnectionError", "HTTPError"}

\* (zipfile.BadZipFile, pl.NoDataError)
ZipOrNoData == {"BadZipFile", "NoDataError"}

\* the subclasses of Exception the pipeline raises
Exceptions == RequestExceptions \cup ZipOrNoData \cup {"ComputeError", "OSError"}

\* str(e)
ExcStr(e) == <<e>>

(* ------------------------------ file system --------------------------- *)

\* files maps each existing path to its content: a table (the line that
\* gave the column names, the lines that gave the rows), complete or cut
\* short by a failed write
Table(header, rows) == [complete |-> TRUE, header |-> header, rows |-> rows]
PartialFile == [complete |-> FALSE, header |-> 0, rows |-> <<>>]

\* a variant of Exists: the bare file name is looked up, not the joined path
ExistsBareName(fs, p) == SubSeq(p, 3, Len(p)) \in DOMAIN fs

\* os.path.exists(p)
Exists(fs, p) == p \in DOMAIN fs

(* ------------------------------ process_year -------------------------- *)

\* a variant of OutputFile: the year is left out of the file name
OutputFileNoYear(dir, y) == PathJoin(dir, <<"RJ_A652", ".parquet">>)

\* os.path.join(self.output_dir, f"RJ_A652_{year}.parquet")
OutputFile(dir, y) == PathJoin(dir, <<"RJ_A652_">> \o Str(y) \o <<".parquet">>)

\* f"{self.base_url}/{year}.zip"
Url(y) == BaseUrl \o <<"/">> \o Str(y) \o <<".zip">>

\* a variant of RaiseForStatus: the status is not looked at
RaiseForStatusNever(status) == "none"

\* response.raise_for_status(): HTTPError for a 4xx or 5xx status
RaiseForStatus(status) ==
  IF 400 <= status /\ status < 600 THEN "HTTPError" ELSE "none"

\* a variant of StationFiles: every member is kept
StationFilesAll(names) == names

\* [name for name in zip_ref.namelist() if self.station_identifier in name]
StationFiles(names) ==
  SelectSeq(names, LAMBDA name : Contains(StationIdentifier, name))

\* zip_ref.namelist()
NameList(ms) == [i \in 1..Len(ms) |-> ms[i].name]

\* zip_ref.open(name): the member of that name
OpenMember(ms, name) == ms[CHOOSE i \in 1..Len(ms) : ms[i].name = name]

\* pl.read_csv(f, separator=';', encoding='latin1', skip_rows=8) of a member
\* of n lines: the first skip_rows lines are dropped, the next line gives the
\* column names, the lines after it are the rows
ReadCsv(n, fault) ==
  IF n <= SkipRows THEN [exc |-> "NoDataError", df |-> Table(0, <<>>)]
  ELSE IF fault # "none" THEN [exc |-> fault, df |-> Table(0, <<>>)]
  ELSE [exc |-> "none",
        df |-> Table(SkipRows + 1,
                     [i \in 1..(n - SkipRows - 1) |-> SkipRows + 1 + i])]

\* df.write_parquet(output_file): the file is created, then filled; a fault
\* before the creation leaves no file, a fault after it leaves a cut file
WriteParquet(fs, p, df, fault) ==
  IF fault = "none" THEN [exc |-> "none", files |-> (p :> df) @@ fs]
  ELSE IF fault = "before_create" THEN [exc |-> "OSError", files |-> fs]
  ELSE [exc |-> "OSError", files |-> (p :> PartialFile) @@ fs]

NoStationMessage(y) ==
  <<"No Rio de Janeiro A652 station data found for ">> \o Str(y)

\* the outcome of the try block: exc is "none" when it returned result
Outcome(exc, result, fs, steps, lines) ==
  [exc |-> exc, result |-> result, files |-> fs, steps |-> steps, lines |-> lines]

\* the body of the try block of process_year
TryBody(y, fs, env, output_file) ==
  LET nothing == DownloadResult(y, FALSE, None, None)
      status_exc == RaiseForStatus(env.status)
      members == env.body.members
      rio_files == StationFiles(NameList(members))
  IN
  IF env.net_fault # "none"
  THEN Outcome(env.net_fault, nothing, fs, <<"get">>, 0)
  ELSE IF status_exc # "none"
  THEN Outcome(status_exc, nothing, fs, <<"get", "raise_for_status">>, 0)
  ELSE IF ~env.body.is_zip
  THEN Outcome("BadZipFile", nothing, fs,
               <<"get", "raise_for_status", "ZipFile">>, 0)
  ELSE IF Len(rio_files) = 0
  THEN Outcome("none",
               DownloadResult(y, FALSE, None, Some(NoStationMessage(y))), fs,
               <<"get", "raise_for_status", "ZipFile", "namelist">>, 0)
  ELSE
    LET station_file == rio_files[1]
        n == OpenMember(members, station_file).lines
        read == ReadCsv(n, env.read_fault)
        write == WriteParquet(fs, output_file, read.df, env.write_fault)
        upto_read == <<"get", "raise_for_status", "ZipFile", "namelist",
                       "open", "read_csv">>
    IN
    IF read.exc # "none"
    THEN Outcome(read.exc, nothing, fs, upto_read, n)
    ELSE IF write.exc # "none"
    THEN Outcome(write.exc, nothing, write.files,
                 Append(upto_read, "write_parquet"), n)
    ELSE Outcome("none", DownloadResult(y, TRUE, Some(output_file), None),
                 write.files, Append(upto_read, "write_parquet"), n)

\* a variant of Handlers: the message is passed as the third positional
\* argument of DownloadResult, which is file_path
HandlersPositional(y, exc) ==
  IF exc \in RequestExceptions
  THEN [caught |-> TRUE, handler |-> "RequestException",
        result |-> DownloadResult(y, FALSE,
           Some(<<"Error downloading data for ">> \o Str(y) \o <<": ">> \o ExcStr(exc)), None)]
  ELSE IF exc \in ZipOrNoData
  THEN [caught |-> TRUE, handler |-> "BadZipFile, NoDataError",
        result |-> DownloadResult(y, FALSE,
           Some(<<"Error processing ZIP file for ">> \o Str(y) \o <<": ">> \o ExcStr(exc)), None)]
  ELSE IF exc \in Exceptions
  THEN [caught |-> TRUE, handler |-> "Exception",
        result |-> DownloadResult(y, FALSE,
           Some(<<"Unexpected error processing ">> \o Str(y) \o <<": ">> \o ExcStr(exc)), None)]
  ELSE [caught |-> FALSE, handler |-> "none",
        result |-> DownloadResult(y, FALSE, None, None)]

\* a variant of Handlers: the last clause, except Exception, is missing
HandlersNoCatchAll(y, exc) ==
  IF exc \in RequestExceptions
  THEN [caught |-> TRUE, handler |-> "RequestException",
        result |-> DownloadResult(y, FALSE, None,
           Some(<<"Error downloading data for ">> \o Str(y) \o <<": ">> \o ExcStr(exc)))]
  ELSE IF exc \in ZipOrNoData
  THEN [caught |-> TRUE, handler |-> "BadZipFile, NoDataError",
        result |-> DownloadResult(y, FALSE, None,
           Some(<<"Error processing ZIP file for ">> \o Str(y) \o <<": ">> \o ExcStr(exc)))]
  ELSE [caught |-> FALSE, handler |-> "none",
        result |-> DownloadResult(y, FALSE, None, None)]

\* the except clauses of process_year, tried in order; an exception that no
\* clause matches leaves process_year
Handlers(y, exc) ==
  IF exc \in RequestExceptions
  THEN [caught |-> TRUE, handler |-> "RequestException",
        result |-> DownloadResult(y, FALSE, None,
           Some(<<"Error downloading data for ">> \o Str(y) \o <<": ">> \o ExcStr(exc)))]
  ELSE IF exc \in ZipOrNoData
  THEN [caught |-> TRUE, handler |-> "BadZipFile, NoDataError",
        result |-> DownloadResult(y, FALSE, None,
           Some(<<"Error processing ZIP file for ">> \o Str(y) \o <<": ">> \o ExcStr(exc)))]
  ELSE IF exc \in Exceptions
  THEN [caught |-> TRUE, handler |-> "Exception",
        result |-> DownloadResult(y, FALSE, None,
           Some(<<"Unexpected error processing ">> \o Str(y) \o <<": ">> \o ExcStr(exc)))]
  ELSE [caught |-> FALSE, handler |-> "none",
        result |-> DownloadResult(y, FALSE, None, None)]

\* process_year(year) on the file system fs in the environment env: whether
\* it returned (or let an exception out), its result, the file system it
\* leaves, the steps it ran, the HTTP requests it made, the except clause
\* it went through and the number of lines of the member it parsed
ProcessYear(dir, y, fs, env) ==
  LET output_file == OutputFile(dir, y)
  IN
  IF Exists(fs, output_file)
  THEN [returned |-> TRUE, exc |-> "none",
        result |-> DownloadResult(y, TRUE, Some(output_file), None),
        files |-> fs, steps |-> <<>>, requests |-> 0, handler |-> "none",
        lines |-> 0]
  ELSE
    LET body == TryBody(y, fs, env, output_file)
        h == Handlers(y, body.exc)
    IN
    IF body.exc = "none"
    THEN [returned |-> TRUE, exc |-> "none", result |-> body.result,
          files |-> body.files, steps |-> body.steps, requests |-> 1,
          handler |-> "none", lines |-> body.lines]
    ELSE [returned |-> h.caught, exc |-> body.exc, result |-> h.result,
          files |-> body.files, steps |-> body.steps, requests |-> 1,
          handler |-> h.handler, lines |-> body.lines]

(* ---------------------------- process_all_years ----------------------- *)

\* a variant of YearRange: range(self.start_year, self.current_year)
YearRangeExclusive(start, cur) == [i \in 1..(cur - start) |-> start + i - 1]

\* range(self.start_year, self.current_year + 1), as a sequence
YearRange(start, cur) == [i \in 1..(cur + 1 - start) |-> start + i - 1]

\* [result.file_path for result in results if result.success and result.file_path]
GetSuccessfulDownloads(rs) ==
  LET kept == SelectSeq(rs, LAMBDA r : r.success /\ Truthy(r.file_path))
  IN [i \in 1..Len(kept) |-> kept[i].file_path.str]

\* a variant of GetFailedDownloads: the "not" of the filter is missing
GetFailedDownloadsNoNot(rs) ==
  LET kept == SelectSeq(rs, LAMBDA r : r.success /\ Truthy(r.error_message))
  IN [i \in 1..Len(kept) |-> <<kept[i].year, kept[i].error_message.str>>]

\* [(result.year, result.error_message) for result in results
\*  if not result.success and result.error_message]
GetFailedDownloads(rs) ==
  LET kept == SelectSeq(rs, LAMBDA r : ~r.success /\ Truthy(r.error_message))
  IN [i \in 1..Len(kept) |-> <<kept[i].year, kept[i].error_message.str>>]

(* ------------------------------ state machine ------------------------- *)

\* the directories a scraper is constructed with: the default and another
DefaultDir == <<"rio_a652_station_data">>
OtherDir == <<"out">>

\* the years an earlier run may have left a file for
Years == (ThisYear - MaxSpan)..ThisYear

\* the start_year arguments: ranges of 1..MaxSpan+1 years and empty ranges
StartYears == (ThisYear - MaxSpan)..(ThisYear + 2)

\* the arguments a scraper is constructed with: the default directory with
\* every start year, another directory with a range of one year
Configs ==
  {<<DefaultDir, s>> : s \in StartYears} \cup {<<OtherDir, ThisYear>>}

\* an output file an earlier run left: a header line and no row
LeftOver == Table(SkipRows + 1, <<>>)

\* the environments a call can meet: a call that finds its output file
\* consults none, and is drawn with one
EnvsAt(fs, p) == IF p \in DOMAIN fs THEN {QuietEnv(200, NotZip)} ELSE Envs

NoCall ==
  [year |-> 0, env |-> QuietEnv(200, NotZip), existed |-> FALSE, returned |-> TRUE, exc |-> "none",
   result |-> DownloadResult(0, FALSE, None, None), steps |-> <<>>,
   requests |-> 0, handler |-> "none", lines |-> 0]

\* the record of a call of process_year(y) in the environment env, with
\* r == ProcessYear(...)
CallRecord(y, env, existed, r) ==
  [year |-> y, env |-> env, existed |-> existed, returned |-> r.returned, exc |-> r.exc,
   result |-> r.result, steps |-> r.steps, requests |-> r.requests,
   handler |-> r.handler, lines |-> r.lines]

\* INMETScraper(output_dir, start_year); the output directory holds what
\* earlier runs left in it: nothing, or the file of one year
Init ==
  /\ \E c \in Configs : output_dir = c[1] /\ start_year = c[2]
  /\ current_year = ThisYear
  /\ files \in {<<>>} \cup
        {(OutputFile(output_dir, y) :> LeftOver) : y \in Years}
  /\ pc = "idle"
  /\ idx = 1
  /\ results = <<>>
  /\ last = NoCall
  /\ calls = 0

\* process_all_years is entered: results = []
Begin ==
  /\ pc = "idle"
  /\ pc' = "loop"
  /\ idx' = 1
  /\ results' = <<>>
  /\ UNCHANGED <<output_dir, start_year, current_year, files, last, calls>>

\* one iteration of the for loop: result = self.process_year(year);
\* results.append(result). An exception out of process_year ends the run.
Iterate(env) ==
  /\ pc = "loop"
  /\ idx <= Len(YearRange(start_year, current_year))
  /\ calls < MaxCalls
  /\ env \in EnvsAt(files, OutputFile(output_dir, YearRange(start_year, current_year)[idx]))
  /\ \E y \in {YearRange(start_year, current_year)[idx]} :
     \E r \in {ProcessYear(output_dir, y, files, env)} :
        /\ files' = r.files
        /\ last' = CallRecord(y, env, OutputFile(output_dir, y) \in DOMAIN files, r)
        /\ IF r.returned
           THEN /\ results' = Append(results, r.result)
                /\ idx' = idx + 1
                /\ pc' = "loop"
           ELSE /\ pc' = "crashed"
                /\ UNCHANGED <<results, idx>>
  /\ calls' = calls + 1
  /\ UNCHANGED <<output_dir, start_year, current_year>>

\* the range is exhausted: return results
Return ==
  /\ pc = "loop"
  /\ idx > Len(YearRange(start_year, current_year))
  /\ pc' = "returned"
  /\ UNCHANGED <<output_dir, start_year, current_year, files, idx, results,
                 last, calls>>

\* a later run of the program: a scraper is constructed again over the
\* same directory
Rerun ==
  /\ pc = "returned"
  /\ pc' = "idle"
  /\ idx' = 1
  /\ results' = <<>>
  /\ UNCHANGED <<output_dir, start_year, current_year, files, last, calls>>

Next ==
  \/ Begin
  \/ \E env \in Envs : Iterate(env)
  \/ Return
  \/ Rerun

Spec == Init /\ [][Next]_vars

(* ------------------------------ properties ---------------------------- *)

\* the path the output of year y is expected at, written out: the
\* directory, a separator, RJ_A652_, the year in decimal digits, .parquet
ExpectedPath(dir, y) ==
  dir \o <<"/", "RJ_A652_">> \o Str(y) \o <<".parquet">>

\* a step is a call of process_year
CallStep == calls' = calls + 1

\* C1: a call of process_year(y) that finds the output file of y makes no
\* HTTP request, leaves the file system as it is and returns
\* (y, True, path of y, None); and a call for the year of the call before
\* it, when that one succeeded, returns the same outcome without a request.
C1_Idempotence ==
  [][CallStep =>
       /\ ExpectedPath(output_dir, last'.year) \in DOMAIN files =>
            /\ last'.returned
            /\ last'.requests = 0
            /\ last'.steps = <<>>
            /\ files' = files
            /\ last'.result =
                 DownloadResult(last'.year, TRUE,
                                Some(ExpectedPath(output_dir, last'.year)), None)
       /\ (calls > 0 /\ last.returned /\ last.result.success
             /\ last'.year = last.year) =>
            /\ last'.result = last.result
            /\ last'.requests = 0]_vars

\* C1 witness: a range of one year, so that consecutive calls are for the
\* same year; the second call found the file the first one wrote
C1_Witness ==
  /\ start_year = current_year
  /\ calls = 2
  /\ last.existed
  /\ last.requests = 0
  /\ last.result.success
  /\ files[ExpectedPath(output_dir, last.year)].rows # <<>>

\* C2 as stated: process_all_years returns current_year - start_year + 1
\* outcomes, the i-th (0-based) for the year start_year + i.
C2_Original ==
  pc = "returned" =>
    /\ Len(results) = current_year - start_year + 1
    /\ \A i \in 1..Len(results) : results[i].year = start_year + i - 1

\* C2 as amended: process_all_years returns current_year - start_year + 1
\* outcomes when that number is positive and none otherwise, the i-th
\* (0-based) for the year start_year + i.
C2_Exhaustive ==
  pc = "returned" =>
    /\ Len(results) = IF start_year <= current_year
                      THEN current_year - start_year + 1 ELSE 0
    /\ \A i \in 1..Len(results) : results[i].year = start_year + i - 1

\* C2 witness: a returned list of two outcomes, a failure and a success
C2_Witness ==
  /\ pc = "returned"
  /\ Len(results) = 2
  /\ ~results[1].success
  /\ results[2].success

\* fields set as the outcome's success value requires
WellFormed(r) ==
  /\ r.success <=> (~r.file_path.is_none /\ r.error_message.is_none)
  /\ ~r.success <=> (~r.error_message.is_none /\ r.file_path.is_none)

\* C3: every outcome process_year returns has success = true exactly when
\* file_path is set and error_message is unset, and success = false exactly
\* when error_message is set and file_path is unset.
C3_MutuallyExclusive ==
  /\ (calls > 0 /\ last.returned) => WellFormed(last.result)
  /\ \A i \in 1..Len(results) : WellFormed(results[i])

\* C3 witness: an outcome of the catch-all clause after an outcome of a
\* successful write
C3_Witness ==
  /\ Len(results) = 2
  /\ results[1].success
  /\ last.handler = "Exception"
  /\ results[2] = last.result

\* C4: each outcome of the list process_all_years returns is selected by
\* exactly one of get_successful_downloads and get_failed_downloads, so
\* the lengths of the two lists add up to the number of outcomes.
C4_Partition ==
  pc = "returned" =>
    /\ \A i \in 1..Len(results) :
         Len(GetSuccessfulDownloads(<<results[i]>>))
           + Len(GetFailedDownloads(<<results[i]>>)) = 1
    /\ Len(GetSuccessfulDownloads(results)) + Len(GetFailedDownloads(results))
         = Len(results)

\* C4 witness: a returned list with one success and one failure
C4_Witness ==
  /\ pc = "returned"
  /\ Len(GetSuccessfulDownloads(results)) = 1
  /\ Len(GetFailedDownloads(results)) = 1

\* C5: no exception leaves process_year: an exception raised at a stage is
\* turned into a failure outcome by an except clause, the run does not
\* end early, and the returned list has an outcome for every year of the
\* range.
C5_Contained ==
  /\ pc # "crashed"
  /\ calls > 0 =>
       /\ last.returned
       /\ last.exc # "none" => (~last.result.success /\ last.handler # "none")
  /\ pc = "returned" =>
       \A y \in start_year..current_year :
          \E i \in 1..Len(results) : results[i].year = y

\* C5 witness: the first year failed with an exception at the write, the
\* year after it was attempted and succeeded
C5_Witness ==
  /\ pc = "returned"
  /\ Len(results) = 2
  /\ results[1].error_message.str =
       <<"Unexpected error processing ">> \o Str(start_year) \o <<": ", "OSError">>
  /\ results[2].success
  /\ ~last.existed

\* the path the output of year y is claimed at: {output_dir}/A652_{y}.parquet
ClaimedPath(dir, y) ==
  dir \o <<"/", "A652_">> \o Str(y) \o <<".parquet">>

\* C6 as stated: the path a success outcome reports, and the file is
\* written at, is {output_dir}/A652_{y}.parquet.
C6_Original ==
  (calls > 0 /\ last.returned /\ last.result.success) =>
    /\ last.result.file_path.str = ClaimedPath(output_dir, last.year)
    /\ ClaimedPath(output_dir, last.year) \in DOMAIN files

\* C6 as amended: the path process_year(y) checks, writes and reports is
\* {output_dir}/RJ_A652_{y}.parquet, e.g.
\* rio_a652_station_data/RJ_A652_2020.parquet for the year 2020 in the
\* default directory; every file of the directory is at the path of a year.
C6_OutputPath ==
  /\ (calls > 0 /\ last.returned /\ last.result.success) =>
       /\ last.result.file_path = Some(ExpectedPath(output_dir, last.year))
       /\ ExpectedPath(output_dir, last.year) \in DOMAIN files
       /\ (last.year = 2020 /\ output_dir = <<"rio_a652_station_data">>) =>
            last.result.file_path.str =
              <<"rio_a652_station_data", "/", "RJ_A652_", "2", "0", "2", "0",
                ".parquet">>
  /\ (calls > 0 /\ last.steps = <<>>) =>
       ExpectedPath(output_dir, last.year) \in DOMAIN files
  /\ \A p \in DOMAIN files :
       \E y \in (start_year..current_year) \cup Years : p = ExpectedPath(output_dir, y)

\* C6 witness: the files of two years written by one run, the second for
\* the year after 2020
C6_Witness ==
  /\ pc = "returned"
  /\ Len(results) = 2
  /\ results[1].year = 2020
  /\ results[1].success /\ results[2].success
  /\ ~last.existed
  /\ Cardinality(DOMAIN files) = 2

\* no member name of the archive contains the station identifier
NoStationMember(ms) ==
  \A i \in 1..Len(ms) : ~Contains(StationIdentifier, ms[i].name)

\* the first member of the archive whose name contains the identifier
FirstStationMember(ms) ==
  ms[CHOOSE i \in 1..Len(ms) :
       /\ Contains(StationIdentifier, ms[i].name)
       /\ \A j \in 1..(i - 1) : ~Contains(StationIdentifier, ms[j].name)]

\* the call met a response that is a ZIP archive: no transport fault, no
\* error status
ArchiveOpened(c) ==
  /\ ~c.existed
  /\ c.env.net_fault = "none"
  /\ c.env.status < 400
  /\ c.env.body.is_zip

\* C7: when the archive of y downloads and opens and no member name
\* contains the station identifier, process_year(y) returns
\* (y, False, None, "No Rio de Janeiro A652 station data found for y"),
\* raises nothing, goes through no except clause and writes no file.
C7_NoStationMatch ==
  (calls > 0 /\ ArchiveOpened(last) /\ NoStationMember(last.env.body.members)) =>
    /\ last.returned
    /\ last.result =
         DownloadResult(last.year, FALSE, None,
           Some(<<"No Rio de Janeiro A652 station data found for ">> \o Str(last.year)))
    /\ last.exc = "none"
    /\ last.handler = "none"
    /\ \A i \in 1..Len(last.steps) : last.steps[i] # "write_parquet"
    /\ ExpectedPath(output_dir, last.year) \notin DOMAIN files

\* C7 witness: an archive of members of other stations only
C7_Witness ==
  /\ calls > 0
  /\ ArchiveOpened(last)
  /\ Len(last.env.body.members) > 0
  /\ NoStationMember(last.env.body.members)
  /\ ~last.result.success

\* the outcome of a transport failure: a failure whose message contains
\* "Error downloading data for y", without the archive, parse and write steps
TransportOutcome(c) ==
  /\ c.returned
  /\ c.result.year = c.year
  /\ ~c.result.success
  /\ c.result.file_path = None
  /\ ~c.result.error_message.is_none
  /\ Contains(<<"Error downloading data for ">> \o Str(c.year),
              c.result.error_message.str)
  /\ \A i \in 1..Len(c.steps) :
       c.steps[i] \notin {"ZipFile", "namelist", "open", "read_csv", "write_parquet"}

\* C8 as stated: when the GET fails at the network layer or returns a
\* status outside 200..299, the outcome is the transport failure outcome.
C8_Original ==
  (calls > 0 /\ ~last.existed
     /\ (last.env.net_fault # "none" \/ last.env.status \notin 200..299)) =>
    TransportOutcome(last)

\* C8 as amended: when the GET fails at the network layer or returns a 4xx
\* or 5xx status, the outcome is the transport failure outcome.
C8_TransportFailure ==
  (calls > 0 /\ ~last.existed
     /\ (last.env.net_fault # "none" \/ last.env.status \in 400..599)) =>
    TransportOutcome(last)

\* C8 witness: a response of status 404
C8_Witness ==
  /\ calls > 0
  /\ ~last.existed
  /\ last.env.net_fault = "none"
  /\ last.env.status = 404
  /\ last.handler = "RequestException"

\* the call parsed the first station member, of n lines, and wrote it
ParsedAndWrote(c) ==
  /\ ArchiveOpened(c)
  /\ ~NoStationMember(c.env.body.members)
  /\ c.env.read_fault = "none"
  /\ c.env.write_fault = "none"

\* C9 as stated: 10 leading lines of the station member are skipped and
\* every line after them is a row of the table written.
C9_Original ==
  (calls > 0 /\ ParsedAndWrote(last) /\ last.result.success) =>
    LET n == FirstStationMember(last.env.body.members).lines
    IN files[ExpectedPath(output_dir, last.year)].rows
         = [i \in 1..(n - 10) |-> 10 + i]

\* C9 as amended: 8 leading lines of the station member are skipped, the
\* 9th line gives the column names and every line after it is a row of
\* the table written; a member of 8 lines or fewer gives no table.
C9_HeaderSkip ==
  (calls > 0 /\ ParsedAndWrote(last)) =>
    LET n == FirstStationMember(last.env.body.members).lines
    IN IF n >= 9
       THEN /\ last.result.success
            /\ files[ExpectedPath(output_dir, last.year)]
                 = [complete |-> TRUE, header |-> 9,
                    rows |-> [i \in 1..(n - 9) |-> 9 + i]]
       ELSE /\ ~last.result.success
            /\ last.exc = "NoDataError"

\* C9 witness: a station member of 10 lines, after a member of another
\* station, written as a table of one row
C9_Witness ==
  /\ calls > 0
  /\ ParsedAndWrote(last)
  /\ Len(last.env.body.members) = 2
  /\ FirstStationMember(last.env.body.members).lines = 10
  /\ FirstStationMember(last.env.body.members) = last.env.body.members[2]
  /\ last.result.success
  /\ files[ExpectedPath(output_dir, last.year)].rows = <<10>>

\* C10: after process_year(y) returned a failure outcome there is no file
\* at the output path of y, so that a later call does not take the skip
\* path; and one call issues at most one HTTP request.
C10_RetryEligible ==
  /\ calls > 0 => last.requests <= 1
  /\ (calls > 0 /\ last.returned /\ ~last.result.success) =>
       ExpectedPath(output_dir, last.year) \notin DOMAIN files

====
